---- MODULE Spec2Model ----
(***************************************************************************)
(* Model of the cache-refresh job engine of the FFXIV crafting and         *)
(* gathering cache: the three request handlers of lib/web_services.py      *)
(* (start, status, result) over the three job registries, the generators   *)
(* get_basic_item_data (lib/xivapi_data.py), get_current_item_data and     *)
(* get_historical_item_data (lib/universalis_data.py) run by one thread    *)
(* per job, the upstream pull functions and the database tables they read  *)
(* and write.  Time is counted in whole seconds.                           *)
(***************************************************************************)
EXTENDS Integers, Sequences, FiniteSets, TLC

(***************************************************************************)
(* Bounds of the model.                                                    *)
(***************************************************************************)
MaxJobs == 2
MaxClock == 1
MaxBatchKeys == 250
\* the upstream pulls of world and tax data in one run
MaxPulls == 3

(***************************************************************************)
(* Program constants.                                                      *)
(***************************************************************************)
WORLD_DATA_SCHEDULE_IN_DAYS == 1
BASIC_ITEM_DATA_SCHEDULE_IN_DAYS == 30
HISTORICAL_ITEM_MARKET_DATA_SCHEDULE_IN_DAYS == 1
CURRENT_ITEM_MARKET_DATA_SCHEDULE_IN_HOURS == 1
\* imported by universalis_data.py from lib.constants, which does not define
\* it; every positive number of hours gives the same behaviours here, since
\* a run lasts at most MaxClock seconds
TAX_RATE_SCHEDULE_IN_HOURS == 1
SecondsPerHour == 3600
SecondsPerDay == 86400
SetOfAHundred == 100
HttpOk == 200
HttpNotFound == 404
HttpServerError == 500
MoneyPerDayDivisor == 30

Kinds == {"item", "current", "historical"}
PriceKinds == {"current", "historical"}
NoWorld == ""
Gaia == "Gaia"
\* the two timestamp columns of OverallScrapingData read by get_worlds and
\* get_tax_rates
DataPulls == {"last_world_data_pull", "last_tax_data_pull"}
Ultros == "Ultros"
JobIds == 1 .. MaxJobs
\* the threads that call upstream: the job threads, and 0 for the server's
\* own thread, on which WorldsHandler and TaxRatesHandler run
IOLoop == 0
CallerIds == {IOLoop} \cup JobIds

(***************************************************************************)
(* Python values.  None is the empty tuple and Some(v) the one-element     *)
(* tuple, so that a column that is unset differs from one holding 0.       *)
(* Floats are exact rationals [num, den] in lowest terms; math.inf is the  *)
(* rational with denominator 0.                                            *)
(***************************************************************************)
None == <<>>
Some(v) == <<v>>

RECURSIVE GCD(_, _)
GCD(a, b) == IF b = 0 THEN a ELSE GCD(b, a % b)

Abs(a) == IF a < 0 THEN -a ELSE a

Rat(n, d) ==
    IF d = 0 THEN [num |-> 1, den |-> 0]
    ELSE LET g == GCD(Abs(n), Abs(d))
         IN  [num |-> n \div g, den |-> d \div g]

Inf == [num |-> 1, den |-> 0]
RatInt(n) == [num |-> n, den |-> 1]
RatMul(r, n) == Rat(r.num * n, r.den)
RatAdd(r, n) == Rat(r.num + n * r.den, r.den)
RatDiv(r, n) == Rat(r.num, r.den * n)

\* Python truthiness of an optional number: None and 0 are falsy.
TruthyInt(o) == o # None /\ o[1] # 0
TruthyRat(o) == o # None /\ o[1].num # 0

\* int(x) of a non-negative rational: truncation.
IntOf(r) == r.num \div r.den

SeqToSet(s) == {s[i] : i \in DOMAIN s}

\* list.remove(x): the list without the first occurrence of x.
FirstIndex(s, x) == CHOOSE i \in DOMAIN s : s[i] = x /\ \A k \in 1 .. (i - 1) : s[k] # x
RemoveFirst(s, x) ==
    LET i == FirstIndex(s, x)
    IN  SubSeq(s, 1, i - 1) \o SubSeq(s, i + 1, Len(s))

\* DictSet as a rebinding of the dict: {key: value} replaces what it held.
DictReplace(d, k, v) == [x \in {k} |-> v]

\* dict[key] = value
DictSet(d, k, v) == [x \in (DOMAIN d) \cup {k} |-> IF x = k THEN v ELSE d[x]]
EmptyDict == [x \in {} |-> 0]

(***************************************************************************)
(* Staleness: timedelta(days=...) or timedelta(hours=...) of each kind.    *)
(***************************************************************************)
TTL(kind) ==
    CASE kind = "item" -> BASIC_ITEM_DATA_SCHEDULE_IN_DAYS * SecondsPerDay
      [] kind = "current" -> CURRENT_ITEM_MARKET_DATA_SCHEDULE_IN_HOURS * SecondsPerHour
      [] kind = "historical" -> HISTORICAL_ITEM_MARKET_DATA_SCHEDULE_IN_DAYS * SecondsPerDay

\* if result.last_data_pull.astimezone(timezone.utc) < stale_date
IsStale(last_data_pull, t, kind) == last_data_pull < t - TTL(kind)

(***************************************************************************)
(* The upstream gateways.  What Universalis and XIVAPI hold for a key at   *)
(* time t is a fixed function of the key and of t, so that two fetches of  *)
(* the same key at different times return different values.                *)
(***************************************************************************)
UpstreamItem(kind, key, t) ==
    CASE kind = "current" -> [minPriceNQ |-> 100 * key + t]
      [] kind = "historical" ->
            [nqSaleVelocity |-> Rat(2 * key + 1, 2),
             entries |-> << [quantity |-> key, pricePerUnit |-> 10 + t],
                            [quantity |-> 2, pricePerUnit |-> 25] >>]
      [] kind = "item" ->
            [fields |-> [Name |-> key,
                         Icon |-> [path |-> [dir |-> "ui/icon/", file |-> key,
                                             ext |-> ".tex"]]]]

\* What make_get_request returned None for: pull_* then returns {} (or None).
EmptyData == [shape |-> "empty", body |-> EmptyDict, resolved |-> {}]

\* The keys upstream resolves out of a batch: any subset of a small batch,
\* and all, all but the first, or none of a large one.
ResolvedChoices(batch) ==
    LET keys == SeqToSet(batch)
    IN  IF Cardinality(keys) <= 2 THEN SUBSET keys
        ELSE {keys, keys \ {batch[1]}, {}}

\* response.json() of a request for several ids: {'items': {str(id): ...}}.
MultiData(kind, resolved, t) ==
    [shape |-> "multi",
     body |-> [s \in {ToString(k) : k \in resolved} |->
                 UpstreamItem(kind, CHOOSE k \in resolved : ToString(k) = s, t)],
     resolved |-> resolved]

\* response.json() of a request for one id: the item's record itself.
SingleData(kind, key, t) ==
    [shape |-> "single", body |-> UpstreamItem(kind, key, t), resolved |-> {key}]

\* pull_current_item_data / pull_historical_item_data: every value the call
\* can return for this batch.  A URL that names one id twice may be answered
\* in either shape.
pull_market_item_data(kind, item_ids, t) ==
    IF Len(item_ids) = 0 THEN {EmptyData}
    ELSE {EmptyData} \cup
         (IF Len(item_ids) = 1
          THEN {SingleData(kind, item_ids[1], t)}
          ELSE {MultiData(kind, r, t) : r \in ResolvedChoices(item_ids)} \cup
               (IF Cardinality(SeqToSet(item_ids)) = 1
                THEN {SingleData(kind, item_ids[1], t)}
                ELSE {}))

\* pull_basic_item_data: None or the item's record.
pull_basic_item_data(item_id, t) == {EmptyData, SingleData("item", item_id, t)}

(***************************************************************************)
(* Payloads: the columns a row holds besides its key and last_data_pull,   *)
(* computed from the upstream record as the merge code computes them.      *)
(***************************************************************************)
RECURSIVE SumSeq(_)
SumSeq(s) == IF s = <<>> THEN 0 ELSE s[1] + SumSeq(Tail(s))

RECURSIVE Insert(_, _)
Insert(s, x) ==
    IF s = <<>> THEN <<x>>
    ELSE IF x <= s[1] THEN <<x>> \o s ELSE <<s[1]>> \o Insert(Tail(s), x)

RECURSIVE Sorted(_)
Sorted(s) == IF s = <<>> THEN <<>> ELSE Insert(Sorted(Tail(s)), s[1])

\* statistics.median of a non-empty list
median(s) ==
    LET o == Sorted(s)
        n == Len(o)
    IN  IF n % 2 = 1 THEN RatInt(o[(n + 1) \div 2])
        ELSE Rat(o[n \div 2] + o[n \div 2 + 1], 2)

CurrentPayload(data) == [current_min_price_nq |-> data.minPriceNQ]

HistoricalPayload(data) ==
    LET e == data.entries
        stack_sizes == [i \in DOMAIN e |-> e[i].quantity]
        prices == [i \in DOMAIN e |-> e[i].pricePerUnit]
        num_items_sold == SumSeq(stack_sizes)
        total_price == SumSeq([i \in DOMAIN e |-> e[i].pricePerUnit * e[i].quantity])
        average_price == IF num_items_sold > 0 THEN Rat(total_price, num_items_sold)
                         ELSE RatInt(total_price)
        median_stack_size == IF num_items_sold > 0 THEN median(stack_sizes) ELSE RatInt(0)
        median_price == IF num_items_sold > 0 THEN median(prices) ELSE RatInt(0)
    IN  [nq_daily_sale_velocity |-> IntOf(data.nqSaleVelocity),
         average_price_per_unit |-> IntOf(average_price),
         num_items_sold |-> num_items_sold,
         possible_money_per_day |->
             IntOf(RatDiv(RatMul(median_price, num_items_sold), MoneyPerDayDivisor)),
         median_stack_size |-> median_stack_size,
         median_price |-> median_price]

\* icon_path.replace('ui/icon/', 'i/').replace('.tex', '')
IconPath(path) ==
    [dir |-> IF path.dir = "ui/icon/" THEN "i/" ELSE path.dir,
     file |-> path.file,
     ext |-> IF path.ext = ".tex" THEN "" ELSE path.ext]

ItemPayload(data) == [name |-> data.fields.Name, icon_path |-> IconPath(data.fields.Icon.path)]

Payload(kind, data) ==
    CASE kind = "current" -> CurrentPayload(data)
      [] kind = "historical" -> HistoricalPayload(data)
      [] kind = "item" -> ItemPayload(data)

(***************************************************************************)
(* State.                                                                  *)
(*   thread[j]       the locals of job j's engine thread (the generator    *)
(*                   and the handler loop that drives it);                 *)
(*   *_jobs          the three registries of web_services.py: the job ids  *)
(*                   present.  The value stored under a job id is always   *)
(*                   the one dict `output` of that job's generator, that   *)
(*                   is thread[j].output, which the engine mutates in      *)
(*                   place;                                                *)
(*   item_data, item_market_data_*, overall_scraping_data                  *)
(*                   the committed rows of the database tables, in primary *)
(*                   key order;                                            *)
(*   clock           the wall clock, in seconds;                           *)
(*   response        the last HTTP response written by a handler;          *)
(*   consumed        the job ids whose result a result handler returned    *)
(*                   while it saw the job complete (and deleted);          *)
(*   upstream_calls  per job, the batches it has sent upstream, in order.  *)
(***************************************************************************)
VARIABLES thread, item_jobs, current_market_jobs, historical_market_jobs,
          item_data, item_market_data_current, item_market_data_historical,
          overall_scraping_data, World, TaxRate, clock, response, consumed,
          upstream_calls

vars == <<thread, item_jobs, current_market_jobs, historical_market_jobs,
          item_data, item_market_data_current, item_market_data_historical,
          overall_scraping_data, World, TaxRate, clock, response, consumed,
          upstream_calls>>

registries == <<item_jobs, current_market_jobs, historical_market_jobs>>
tables == <<item_data, item_market_data_current, item_market_data_historical,
            overall_scraping_data, World, TaxRate>>

Table(kind) ==
    CASE kind = "item" -> item_data
      [] kind = "current" -> item_market_data_current
      [] kind = "historical" -> item_market_data_historical

Registry(kind) ==
    CASE kind = "item" -> item_jobs
      [] kind = "current" -> current_market_jobs
      [] kind = "historical" -> historical_market_jobs

\* output = {'complete': False, 'estimated_operation_time': math.inf,
\*           'operation_time_so_far': 0, 'items': {}}
InitialOutput ==
    [complete |-> FALSE, estimated_operation_time |-> Inf,
     operation_time_so_far |-> 0, items |-> EmptyDict]

IdleThread ==
    [pc |-> "idle", kind |-> "current", origin |-> "handler", world |-> NoWorld,
     item_ids |-> <<>>, unhandled_ids |-> <<>>, stale_ids |-> <<>>,
     output |-> InitialOutput, start_of_operation |-> 0,
     overall_scraping_data |-> None, sets_of_a_hundred |-> <<>>,
     batch |-> 1, total_data |-> EmptyDict, index |-> 1, classified_at |-> 0,
     now |-> 0, session |-> <<>>, raised |-> "", end_of_operation |-> 0]

\* An OverallScrapingData row whose columns are all NULL.
EmptyCounters ==
    [k \in Kinds \cup DataPulls |->
        IF k \in Kinds THEN [average_pull_time_in_seconds |-> None, total_pulls |-> None]
        ELSE None]

NoResponse == [op |-> "none", kind |-> "current", job_id |-> 0, code |-> 0,
               status |-> InitialOutput]

(***************************************************************************)
(* Helpers of the engine.                                                  *)
(***************************************************************************)
\* jobs[self.job_id] = state, in the registry of the job's kind.  The
\* scraper drives the generator itself and keeps no registry.
RegistryAdd(kind, origin, j) ==
    /\ item_jobs' =
         IF kind = "item" /\ origin = "handler" THEN item_jobs \cup {j} ELSE item_jobs
    /\ current_market_jobs' =
         IF kind = "current" /\ origin = "handler"
         THEN current_market_jobs \cup {j} ELSE current_market_jobs
    /\ historical_market_jobs' =
         IF kind = "historical" /\ origin = "handler"
         THEN historical_market_jobs \cup {j} ELSE historical_market_jobs

\* del jobs[job_id]
RegistryDel(kind, j) ==
    /\ item_jobs' = IF kind = "item" THEN item_jobs \ {j} ELSE item_jobs
    /\ current_market_jobs' =
         IF kind = "current" THEN current_market_jobs \ {j} ELSE current_market_jobs
    /\ historical_market_jobs' =
         IF kind = "historical" THEN historical_market_jobs \ {j}
         ELSE historical_market_jobs

\* QueryRows without the filter on the world: the rows of the requested keys
\* in every world.
QueryRowsAnyWorld(kind, world, item_ids) ==
    LET Matches(r) == r.key \in SeqToSet(item_ids)
    IN  SelectSeq(Table(kind), Matches)

\* session.query(Table).where(key.in_(item_ids)).filter(world == world).all();
\* the item table has no world column.
QueryRows(kind, world, item_ids) ==
    LET Matches(r) == /\ r.key \in SeqToSet(item_ids)
                      /\ (kind = "item" \/ r.world = world)
    IN  SelectSeq(Table(kind), Matches)

\* ItemsKey by the row's primary key in place of its ffxiv_id.
ItemsKeyByRowId(result) == result.id

\* output['items'][result.ffxiv_id] (result.id for an item): the key under
\* which a fresh row enters the items.
ItemsKey(result) == result.key

\* The loop over the query's results: a stale row is remembered, a fresh one
\* is removed from unhandled_ids and copied into output['items'].
\* list.remove raises ValueError when the id is no longer in the list.
RECURSIVE ClassifyLoop(_, _, _, _)
ClassifyLoop(results, kind, t, acc) ==
    IF results = <<>> \/ acc.error THEN acc
    ELSE LET result == Head(results)
         IN  IF IsStale(result.last_data_pull, t, kind)
             THEN ClassifyLoop(Tail(results), kind, t,
                               [acc EXCEPT !.stale_ids = Append(@, result.key)])
             ELSE IF result.key \notin SeqToSet(acc.unhandled_ids)
             THEN [acc EXCEPT !.error = TRUE]
             ELSE ClassifyLoop(Tail(results), kind, t,
                               [acc EXCEPT !.unhandled_ids = RemoveFirst(@, result.key),
                                           !.items = DictSet(@, ItemsKey(result), result.payload)])

\* sets_of_a_hundred = [unhandled_ids.copy()]
\* while len(sets_of_a_hundred[-1]) > 100:
\*     sets_of_a_hundred.append(sets_of_a_hundred[-1][100:])
RECURSIVE SplitLoop(_)
SplitLoop(sets) ==
    LET last == sets[Len(sets)]
    IN  IF Len(last) > SetOfAHundred
        THEN SplitLoop(Append(sets, SubSeq(last, SetOfAHundred + 1, Len(last))))
        ELSE sets

SetsOfAHundred(unhandled_ids) == SplitLoop(<<unhandled_ids>>)

\* session.query(OverallScrapingData).first(): the first row, if any.
FirstCounters ==
    IF overall_scraping_data = <<>> THEN None
    ELSE Some([pk |-> 1, row |-> overall_scraping_data[1]])

\* The condition under which the estimate is computed.  The item engine
\* tests the average only, the price engines the average and the total.
HasEstimate(kind, loaded) ==
    /\ loaded # None
    /\ TruthyRat(loaded[1].row[kind].average_pull_time_in_seconds)
    /\ (kind = "item" \/ TruthyInt(loaded[1].row[kind].total_pulls))

EstimatedOperationTime(kind, loaded, unhandled_ids) ==
    IF HasEstimate(kind, loaded)
    THEN RatMul(loaded[1].row[kind].average_pull_time_in_seconds[1], Len(unhandled_ids))
    ELSE Inf

\* DecodeBatch without the `if data:` guard in front of it: an empty response
\* is subscripted like any other and raises.
DecodeBatchRaisesOnEmpty(unhandled_ids, total_data, data) ==
    IF data.shape = "multi"
    THEN [error |-> FALSE,
          total_data |-> [k \in (DOMAIN total_data) \cup (DOMAIN data.body) |->
                             IF k \in DOMAIN data.body THEN data.body[k]
                             ELSE total_data[k]]]
    ELSE IF data.shape = "single" /\ Len(unhandled_ids) = 1
    THEN [error |-> FALSE,
          total_data |-> DictSet(total_data, ToString(unhandled_ids[1]), data.body)]
    ELSE [error |-> TRUE, total_data |-> total_data]

\* Decoding one batch's response into total_data.  Returns the new
\* total_data and whether data['items'] raised KeyError.
DecodeBatch(unhandled_ids, total_data, data) ==
    IF data.shape = "empty" THEN [error |-> FALSE, total_data |-> total_data]
    ELSE IF Len(unhandled_ids) = 1
    THEN [error |-> FALSE,
          total_data |-> DictSet(total_data, ToString(unhandled_ids[1]), data.body)]
    ELSE IF data.shape # "multi"
    THEN [error |-> TRUE, total_data |-> total_data]
    ELSE [error |-> FALSE,
          total_data |-> [k \in (DOMAIN total_data) \cup (DOMAIN data.body) |->
                             IF k \in DOMAIN data.body THEN data.body[k]
                             ELSE total_data[k]]]

\* The primary key of the first row of the key in the world (query.first()).
FirstRowPk(kind, world, key) ==
    LET t == Table(kind)
        hits == {i \in DOMAIN t : t[i].key = key /\ (kind = "item" \/ t[i].world = world)}
    IN  t[CHOOSE i \in hits : \A k \in hits : i <= k].id

\* The row object the merge builds or updates for a key.
NewEntry(kind, world, key, pk, data, t) ==
    [id |-> pk, key |-> key, world |-> world, payload |-> Payload(kind, data),
     last_data_pull |-> t]

\* MergeWrite without the test on stale_ids: every merged key is added as
\* a new row.
MergeWriteAlwaysInserts(kind, world, key, stale_ids, data, t) ==
    [op |-> "insert",
     row |-> NewEntry(kind, world, key, IF kind = "item" THEN key ELSE 0, data, t)]

\* The write the merge puts into the session for one key: an INSERT of a
\* new row, or an UPDATE of the row the key already has.
MergeWrite(kind, world, key, stale_ids, data, t) ==
    IF key \notin SeqToSet(stale_ids)
    THEN [op |-> "insert",
          row |-> NewEntry(kind, world, key, IF kind = "item" THEN key ELSE 0, data, t)]
    ELSE [op |-> "update",
          row |-> NewEntry(kind, world, key, FirstRowPk(kind, world, key), data, t)]

\* The rows of a table after the session's writes are committed: every
\* UPDATE ... WHERE id = row.id in the order issued (the last one stands),
\* then the INSERTs appended in order.  The market tables generate the id
\* of an inserted row, item_data takes the item id given.
ApplySession(table, session) ==
    LET IsInsert(w) == w.op = "insert"
        IsUpdate(w) == w.op = "update"
        inserts == SelectSeq(session, IsInsert)
        updates == SelectSeq(session, IsUpdate)
        Updated(r) ==
            LET hits == {u \in DOMAIN updates : updates[u].row.id = r.id}
            IN  IF hits = {} THEN r
                ELSE updates[CHOOSE u \in hits : \A v \in hits : v <= u].row
    IN  [i \in 1 .. (Len(table) + Len(inserts)) |->
           IF i <= Len(table) THEN Updated(table[i])
           ELSE LET row == inserts[i - Len(table)].row
                IN  IF row.id = 0 THEN [row EXCEPT !.id = i] ELSE row]

\* item_data.id is the primary key and is the item id itself: a second
\* INSERT of an id raises IntegrityError.  The market tables key their rows
\* by a generated id and accept a second row for the same item and world.
ViolatesPrimaryKey(kind, table, session) ==
    /\ kind = "item"
    /\ \E i \in DOMAIN session :
         /\ session[i].op = "insert"
         /\ \/ \E r \in DOMAIN table : table[r].id = session[i].row.id
            \/ \E k \in 1 .. (i - 1) :
                 session[k].op = "insert" /\ session[k].row.id = session[i].row.id

\* The counters of one kind after a job of `count` requested ids that took
\* `duration` seconds, from the counters the session holds for the row.
UpdatedCounters(old, duration, count) ==
    LET unset == \/ ~TruthyRat(old.average_pull_time_in_seconds)
                 \/ ~TruthyInt(old.total_pulls)
        total_duration ==
            IF unset THEN RatInt(duration)
            ELSE RatAdd(RatMul(old.average_pull_time_in_seconds[1], old.total_pulls[1]),
                        duration)
        total == (IF TruthyInt(old.total_pulls) THEN old.total_pulls[1] ELSE 0) + count
    IN  [average_pull_time_in_seconds |-> Some(RatDiv(total_duration, total)),
         total_pulls |-> Some(total)]

\* The counters of the row inserted when the table has no row.
CreatedCounters(duration, count) ==
    [average_pull_time_in_seconds |-> Some(RatInt(duration)), total_pulls |-> Some(count)]

\* total_duration / total_pulls with total_pulls = 0: the row exists, its
\* total is unset or 0, and the request named no id.
CountersDivideByZero(kind, loaded, count) ==
    LET held == IF loaded # None THEN loaded ELSE FirstCounters
    IN  /\ held # None
        /\ (IF TruthyInt(held[1].row[kind].total_pulls)
            THEN held[1].row[kind].total_pulls[1] ELSE 0) + count = 0

\* The OverallScrapingData table after the job's commit.  `loaded` is the
\* row the session already holds (its attributes are those read when it was
\* first loaded: the second query does not refresh them), or None.
CommitCounters(kind, loaded, duration, count) ==
    LET held == IF loaded # None THEN loaded ELSE FirstCounters
    IN  IF held = None
        THEN Append(overall_scraping_data,
                    [EmptyCounters EXCEPT ![kind] = CreatedCounters(duration, count)])
        ELSE [overall_scraping_data EXCEPT
                ![held[1].pk][kind] = UpdatedCounters(held[1].row[kind], duration, count)]

\* TablesCommit with the rows of the session lost: only the counter row is
\* written.
TablesCommitCountersOnly(kind, session, counters) ==
    /\ UNCHANGED <<item_data, item_market_data_current, item_market_data_historical>>
    /\ overall_scraping_data' = counters
    /\ UNCHANGED <<World, TaxRate>>

\* The tables after the job's session.commit().
TablesCommit(kind, session, counters) ==
    /\ item_data' = IF kind = "item" THEN ApplySession(item_data, session) ELSE item_data
    /\ item_market_data_current' =
         IF kind = "current" THEN ApplySession(item_market_data_current, session)
         ELSE item_market_data_current
    /\ item_market_data_historical' =
         IF kind = "historical" THEN ApplySession(item_market_data_historical, session)
         ELSE item_market_data_historical
    /\ overall_scraping_data' = counters
    /\ UNCHANGED <<World, TaxRate>>

(***************************************************************************)
(* Starting a job.  Thread(target=f, args=a).start() calls f with the      *)
(* elements of a as its positional arguments.                              *)
(***************************************************************************)
PyInt(n) == [type |-> "int", value |-> n]
PyStr(x) == [type |-> "str", value |-> x]
PyList(l) == [type |-> "list", value |-> l]

\* ItemsHandler.get: args=(item_ids).  The parentheses build no tuple, so
\* the positional arguments of the thread's target are the ids themselves.
ItemsHandlerArgs(item_ids) == [i \in 1 .. Len(item_ids) |-> PyInt(item_ids[i])]

\* MarketCurrentHandler.get, MarketHistoricalHandler.get: args=(world, item_ids)
MarketHandlerArgs(world, item_ids) == <<PyStr(world), PyList(item_ids)>>

\* ItemsHandler.get_async_portion(self, item_ids) called with the thread's args, up to
\* the first step of the generator: TypeError unless exactly one argument
\* is passed, and get_basic_item_data raises unless that argument is a list.
ItemsAsyncPortion(args) ==
    IF Len(args) = 1 /\ args[1].type = "list"
    THEN [error |-> FALSE, item_ids |-> args[1].value]
    ELSE [error |-> TRUE, item_ids |-> <<>>]

\* get_async_portion(self, world, item_ids) of the market handlers.
MarketAsyncPortion(args) ==
    IF Len(args) = 2 /\ args[1].type = "str" /\ args[2].type = "list"
    THEN [error |-> FALSE, world |-> args[1].value, item_ids |-> args[2].value]
    ELSE [error |-> TRUE, world |-> NoWorld, item_ids |-> <<>>]

\* uuid4 gives every handler a fresh job id: ids are handed out in order.
Fresh(j) == thread[j].pc = "idle" /\ \A i \in 1 .. (j - 1) : thread[i].pc # "idle"

StartedThread(kind, origin, world, item_ids, error) ==
    [IdleThread EXCEPT !.pc = IF error THEN "crashed" ELSE "classify",
                       !.raised = IF error THEN "TypeError" ELSE "",
                       !.kind = kind, !.origin = origin, !.world = world,
                       !.item_ids = item_ids]

StartResponse(kind, j) ==
    [op |-> "start", kind |-> kind, job_id |-> j, code |-> HttpOk, status |-> InitialOutput]

\* MarketCurrentHandler.get / MarketHistoricalHandler.get
StartMarketJob(j, kind, world, item_ids) ==
    /\ Fresh(j)
    /\ kind \in PriceKinds
    /\ LET call == MarketAsyncPortion(MarketHandlerArgs(world, item_ids))
       IN  thread' = [thread EXCEPT
                        ![j] = StartedThread(kind, "handler", call.world, call.item_ids,
                                             call.error)]
    /\ response' = StartResponse(kind, j)
    /\ UNCHANGED <<registries, tables, clock, consumed, upstream_calls>>

\* ItemsHandler.get
StartItemsJob(j, item_ids) ==
    /\ Fresh(j)
    /\ LET call == ItemsAsyncPortion(ItemsHandlerArgs(item_ids))
       IN  thread' = [thread EXCEPT
                        ![j] = StartedThread("item", "handler", NoWorld, call.item_ids,
                                             call.error)]
    /\ response' = StartResponse("item", j)
    /\ UNCHANGED <<registries, tables, clock, consumed, upstream_calls>>

\* update_item_in_database: for _ in get_basic_item_data([item['id']], engine).
\* The scraper is one thread: it runs one generator at a time.
StartScraperItem(j, item_id) ==
    /\ Fresh(j)
    /\ \A i \in JobIds : thread[i].origin = "scraper" => thread[i].pc \in {"done", "crashed"}
    /\ thread' = [thread EXCEPT
                    ![j] = StartedThread("item", "scraper", NoWorld, <<item_id>>, FALSE)]
    /\ UNCHANGED <<registries, tables, clock, response, consumed, upstream_calls>>

\* get_current_item_data(world, item_ids, engine) and its two siblings called
\* by a caller of its own, which drives the generator to its end.
CallEngine(j, kind, item_ids) ==
    /\ Fresh(j)
    /\ thread' = [thread EXCEPT
                    ![j] = StartedThread(kind, "caller",
                                         IF kind = "item" THEN NoWorld ELSE Gaia,
                                         item_ids, FALSE)]
    /\ UNCHANGED <<registries, tables, clock, response, consumed, upstream_calls>>

(***************************************************************************)
(* The engine: get_basic_item_data, get_current_item_data and              *)
(* get_historical_item_data, one action per stretch of code between two    *)
(* points at which the thread reads or writes shared state.                *)
(***************************************************************************)
\* The record of one request sent upstream: the ids asked for, whether the
\* gateway returned nothing, and the ids it returned a value for.
UpstreamCall(item_ids, data) ==
    [item_ids |-> item_ids, failed |-> data.shape = "empty", resolved |-> data.resolved]

\* The query for the requested keys and the loop that partitions them.
Classify(j) ==
    LET t == thread[j]
        acc == ClassifyLoop(QueryRows(t.kind, t.world, t.item_ids), t.kind, clock,
                            [unhandled_ids |-> t.item_ids, stale_ids |-> <<>>,
                             items |-> EmptyDict, error |-> FALSE])
    IN  /\ t.pc = "classify"
        /\ thread' = [thread EXCEPT
                        ![j].pc = IF acc.error THEN "crashed" ELSE "estimate",
                        ![j].raised = IF acc.error THEN "ValueError" ELSE "",
                        ![j].classified_at = clock,
                        ![j].unhandled_ids = acc.unhandled_ids,
                        ![j].stale_ids = acc.stale_ids,
                        ![j].output.items = acc.items]
        /\ UNCHANGED <<registries, tables, clock, response, consumed, upstream_calls>>

\* start_of_operation, the counter query and the estimate.  The price
\* engines then yield the initial output and split the pending ids; the
\* item engine goes straight into its loop.
Estimate(j) ==
    LET t == thread[j]
        loaded == FirstCounters
    IN  /\ t.pc = "estimate"
        /\ thread' = [thread EXCEPT
                        ![j].pc = IF t.kind = "item" /\ Len(t.unhandled_ids) = 0
                                  THEN "finalize" ELSE "publish",
                        ![j].start_of_operation = clock,
                        ![j].overall_scraping_data = loaded,
                        ![j].output.estimated_operation_time =
                            EstimatedOperationTime(t.kind, loaded, t.unhandled_ids),
                        ![j].sets_of_a_hundred =
                            IF t.kind = "item" THEN <<>>
                            ELSE SetsOfAHundred(t.unhandled_ids)]
        /\ IF t.kind = "item" THEN UNCHANGED registries
           ELSE RegistryAdd(t.kind, t.origin, j)
        /\ UNCHANGED <<tables, clock, response, consumed, upstream_calls>>

\* The yield at the head of the loop body: the elapsed time is written into
\* the output and the handler loop stores the output under the job id.
Publish(j) ==
    LET t == thread[j]
    IN  /\ t.pc = "publish"
        /\ thread' = [thread EXCEPT ![j].pc = "pull",
                                    ![j].now = clock,
                                    ![j].output.operation_time_so_far =
                                        clock - t.start_of_operation]
        /\ RegistryAdd(t.kind, t.origin, j)
        /\ UNCHANGED <<tables, clock, response, consumed, upstream_calls>>

\* pull_current_item_data / pull_historical_item_data on the batch, and the
\* decoding of its response into total_data.
PullMarket(j) ==
    LET t == thread[j]
        batch == t.sets_of_a_hundred[t.batch]
    IN  /\ t.pc = "pull"
        /\ t.kind \in PriceKinds
        /\ \E data \in pull_market_item_data(t.kind, batch, clock) :
             LET d == DecodeBatch(t.unhandled_ids, t.total_data, data)
             IN  /\ thread' = [thread EXCEPT
                       ![j].pc = IF d.error THEN "crashed"
                                 ELSE IF t.batch < Len(t.sets_of_a_hundred) THEN "publish"
                                 ELSE IF Len(t.unhandled_ids) = 0 THEN "finalize"
                                 ELSE "merge",
                       ![j].raised = IF d.error THEN "KeyError" ELSE "",
                       ![j].batch = t.batch + 1,
                       ![j].total_data = d.total_data]
                 /\ upstream_calls' =
                       IF Len(batch) = 0 THEN upstream_calls
                       ELSE [upstream_calls EXCEPT ![j] = Append(@, UpstreamCall(batch, data))]
        /\ UNCHANGED <<registries, tables, clock, response, consumed>>

\* MergeKey with the `continue` replaced by a touch of the stale row: a key
\* upstream returned nothing for has its row's last_data_pull set to now.
MergeKeyTouch(j) ==
    LET t == thread[j]
        id == t.unhandled_ids[t.index]
        next == IF t.index < Len(t.unhandled_ids) THEN "merge" ELSE "finalize"
        rows == QueryRows(t.kind, t.world, <<id>>)
    IN  /\ t.pc = "merge"
        /\ thread' =
             IF ToString(id) \notin DOMAIN t.total_data
             THEN IF id \in SeqToSet(t.stale_ids)
                  THEN [thread EXCEPT
                          ![j].pc = next, ![j].index = t.index + 1,
                          ![j].session =
                              Append(@, [op |-> "update",
                                         row |-> [rows[1] EXCEPT !.last_data_pull = clock]])]
                  ELSE [thread EXCEPT ![j].pc = next, ![j].index = t.index + 1]
             ELSE LET w == MergeWrite(t.kind, t.world, id, t.stale_ids,
                                      t.total_data[ToString(id)], clock)
                  IN  [thread EXCEPT ![j].pc = next, ![j].index = t.index + 1,
                                     ![j].session = Append(@, w),
                                     ![j].output.items = DictSet(@, id, w.row.payload)]
        /\ UNCHANGED <<registries, tables, clock, response, consumed, upstream_calls>>

\* One iteration of the merge loop of a price engine.
MergeKey(j) ==
    LET t == thread[j]
        id == t.unhandled_ids[t.index]
        w == MergeWrite(t.kind, t.world, id, t.stale_ids, t.total_data[ToString(id)], clock)
        next == IF t.index < Len(t.unhandled_ids) THEN "merge" ELSE "finalize"
    IN  /\ t.pc = "merge"
        /\ thread' =
             IF ToString(id) \notin DOMAIN t.total_data
             THEN [thread EXCEPT ![j].pc = next, ![j].index = t.index + 1]
             ELSE [thread EXCEPT ![j].pc = next, ![j].index = t.index + 1,
                                 ![j].session = Append(@, w),
                                 ![j].output.items = DictSet(@, id, w.row.payload)]
        /\ UNCHANGED <<registries, tables, clock, response, consumed, upstream_calls>>

\* pull_basic_item_data for one id and, when it returned data, the merge of
\* that id, stamped with the time read before the yield.
PullBasicItem(j) ==
    LET t == thread[j]
        id == t.unhandled_ids[t.index]
        next == IF t.index < Len(t.unhandled_ids) THEN "publish" ELSE "finalize"
    IN  /\ t.pc = "pull"
        /\ t.kind = "item"
        /\ \E data \in pull_basic_item_data(id, clock) :
             LET w == MergeWrite(t.kind, t.world, id, t.stale_ids, data.body, t.now)
             IN  /\ thread' =
                       IF data.shape = "empty"
                       THEN [thread EXCEPT ![j].pc = next, ![j].index = t.index + 1]
                       ELSE [thread EXCEPT ![j].pc = next, ![j].index = t.index + 1,
                                           ![j].session = Append(@, w),
                                           ![j].output.items = DictSet(@, id, w.row.payload)]
                 /\ upstream_calls' =
                       [upstream_calls EXCEPT ![j] = Append(@, UpstreamCall(<<id>>, data))]
        /\ UNCHANGED <<registries, tables, clock, response, consumed>>

\* end_of_operation, the counter update and session.commit().  A division
\* by zero in the counter update, or a row the table refuses, raises in the
\* thread before anything is committed.
Commit(j) ==
    LET t == thread[j]
        duration == clock - t.start_of_operation
    IN  /\ t.pc = "finalize"
        /\ IF CountersDivideByZero(t.kind, t.overall_scraping_data, Len(t.item_ids))
           THEN /\ thread' = [thread EXCEPT ![j].pc = "crashed",
                                            ![j].raised = "ZeroDivisionError"]
                /\ UNCHANGED tables
           ELSE IF ViolatesPrimaryKey(t.kind, Table(t.kind), t.session)
           THEN /\ thread' = [thread EXCEPT ![j].pc = "crashed",
                                            ![j].raised = "IntegrityError"]
                /\ UNCHANGED tables
           ELSE /\ thread' = [thread EXCEPT ![j].pc = "complete", ![j].session = <<>>]
                /\ TablesCommit(t.kind, t.session,
                                CommitCounters(t.kind, t.overall_scraping_data, duration,
                                               Len(t.item_ids)))
        /\ UNCHANGED <<registries, clock, response, consumed, upstream_calls>>

\* StoreFails on a session that sends every write to the database as it is
\* issued: the rows merged before the failure stay in the table.
StoreFailsAfterWrites(j) ==
    /\ thread[j].pc \in {"classify", "estimate", "merge", "finalize"}
    /\ thread' = [thread EXCEPT ![j].pc = "crashed", ![j].raised = "OperationalError"]
    /\ TablesCommit(thread[j].kind, thread[j].session, overall_scraping_data)
    /\ UNCHANGED <<registries, clock, response, consumed, upstream_calls>>

\* A statement of the session raises: the query of the classification, the
\* counter query, the query for a stale key's row, or the counter query and
\* session.commit() at the end.  Nothing in the engine or in the handler
\* loop catches it, the thread ends and its session is never committed.
StoreFails(j) ==
    /\ thread[j].pc \in {"classify", "estimate", "merge", "finalize"}
    /\ thread' = [thread EXCEPT ![j].pc = "crashed", ![j].raised = "OperationalError"]
    /\ UNCHANGED <<registries, tables, clock, response, consumed, upstream_calls>>

\* output['complete'] = True.  The price engines go on to a last yield, the
\* item engine returns.
MarkComplete(j) ==
    LET t == thread[j]
    IN  /\ t.pc = "complete"
        /\ thread' = [thread EXCEPT
                        ![j].pc = IF t.kind = "item" THEN "done" ELSE "final_yield",
                        ![j].output.complete = TRUE]
        /\ UNCHANGED <<registries, tables, clock, response, consumed, upstream_calls>>

\* The last yield of a price engine: the handler loop stores the output
\* under the job id once more, and the thread ends.
FinalYield(j) ==
    LET t == thread[j]
    IN  /\ t.pc = "final_yield"
        /\ thread' = [thread EXCEPT ![j].pc = "done"]
        /\ RegistryAdd(t.kind, t.origin, j)
        /\ UNCHANGED <<tables, clock, response, consumed, upstream_calls>>

(***************************************************************************)
(* The status and result handlers.  A client polls the endpoints of the    *)
(* kind it started the job on, with the job id the start handler wrote.    *)
(***************************************************************************)
JobKind(j) == thread[j].kind

NotFoundResponse(op, kind, j) ==
    [op |-> op, kind |-> kind, job_id |-> j, code |-> HttpNotFound, status |-> InitialOutput]

\* StrippedCopy built as a new dict that takes over the estimate and the
\* elapsed time only: the complete flag of the job is lost.
StrippedCopyWithoutFlag(output) == [output EXCEPT !.items = EmptyDict, !.complete = FALSE]

\* status = jobs[job_id].copy(); status['items'] = {}
StrippedCopy(output) == [output EXCEPT !.items = EmptyDict]

\* json.dumps(status): the item engine stores a timedelta as the elapsed
\* time, which json cannot serialize; the handler then fails.
StatusCode(kind) == IF kind = "item" THEN HttpServerError ELSE HttpOk

\* GetStatus without the .copy(): status is the registry's dict itself, and
\* status['items'] = {} empties the job's items.
GetStatusInPlace(j) ==
    LET kind == JobKind(j)
    IN  /\ thread[j].pc # "idle"
        /\ response' =
             IF j \notin Registry(kind) THEN NotFoundResponse("status", kind, j)
             ELSE [op |-> "status", kind |-> kind, job_id |-> j, code |-> StatusCode(kind),
                   status |-> StrippedCopy(thread[j].output)]
        /\ thread' =
             IF j \notin Registry(kind) THEN thread
             ELSE [thread EXCEPT ![j].output.items = EmptyDict]
        /\ UNCHANGED <<registries, tables, clock, consumed, upstream_calls>>

\* ItemsStatusHandler.get, MarketCurrentStatusHandler.get,
\* MarketHistoricalStatusHandler.get
GetStatus(j) ==
    LET kind == JobKind(j)
    IN  /\ thread[j].pc # "idle"
        /\ response' =
             IF j \notin Registry(kind) THEN NotFoundResponse("status", kind, j)
             ELSE [op |-> "status", kind |-> kind, job_id |-> j, code |-> StatusCode(kind),
                   status |-> StrippedCopy(thread[j].output)]
        /\ UNCHANGED <<thread, registries, tables, clock, consumed, upstream_calls>>

\* GetResult with the test of status['complete'] left out: the entry is
\* deleted by every result request that finds it.
GetResultAlwaysDeletes(j) ==
    LET kind == JobKind(j)
        status == thread[j].output
    IN  /\ thread[j].pc # "idle"
        /\ IF j \notin Registry(kind)
           THEN /\ response' = NotFoundResponse("result", kind, j)
                /\ UNCHANGED <<thread, registries, tables, clock, consumed, upstream_calls>>
           ELSE /\ response' = [op |-> "result", kind |-> kind, job_id |-> j, code |-> HttpOk,
                                status |-> status]
                /\ RegistryDel(kind, j)
                /\ consumed' = IF status.complete THEN consumed \cup {j} ELSE consumed
                /\ UNCHANGED <<thread, tables, clock, upstream_calls>>

\* ItemsResultHandler.get, MarketCurrentResultHandler.get,
\* MarketHistoricalResultHandler.get: the items of a copy of the entry are
\* written, and the entry is deleted when the copy says complete.
GetResult(j) ==
    LET kind == JobKind(j)
        status == thread[j].output
    IN  /\ thread[j].pc # "idle"
        /\ IF j \notin Registry(kind)
           THEN /\ response' = NotFoundResponse("result", kind, j)
                /\ UNCHANGED <<thread, registries, tables, clock, consumed, upstream_calls>>
           ELSE /\ response' = [op |-> "result", kind |-> kind, job_id |-> j, code |-> HttpOk,
                                status |-> status]
                /\ IF status.complete
                   THEN /\ RegistryDel(kind, j)
                        /\ consumed' = consumed \cup {j}
                   ELSE UNCHANGED <<registries, consumed>>
                /\ UNCHANGED <<thread, tables, clock, upstream_calls>>

\* The wall clock advances.
Tick ==
    /\ clock < MaxClock
    /\ clock' = clock + 1
    /\ UNCHANGED <<thread, registries, tables, response, consumed, upstream_calls>>

(***************************************************************************)
(* Initial states.  The tables hold what earlier runs left: per key of a   *)
(* kind no row or one row, pulled a little more, exactly, or a little less *)
(* than the kind's TTL ago, or just now; and no counter row, a counter row *)
(* with every column NULL, or one with counters.                           *)
(***************************************************************************)
Keys == {1, 2}
RequestLists == {<<1>>, <<1, 2>>, <<1, 1>>, <<1, 2, 3>>}

\* A row pulled (TTL - offset) seconds before time 0.
OldRow(kind, world, key, offset) ==
    [id |-> 0, key |-> key, world |-> world,
     payload |-> Payload(kind, UpstreamItem(kind, key, -1)),
     last_data_pull |-> offset - TTL(kind)]

ScopeOf(kind) == IF kind = "item" THEN NoWorld ELSE Gaia

\* The rows of a kind's table, with their primary keys: the key's row in
\* another world first.
InitialTable(kind, age1, age2) ==
    LET rows ==
          (IF kind = "item" THEN <<>> ELSE <<OldRow(kind, Ultros, 1, TTL(kind))>>)
          \o (IF age1 = None THEN <<>> ELSE <<OldRow(kind, ScopeOf(kind), 1, age1[1])>>)
          \o (IF age2 = None THEN <<>> ELSE <<OldRow(kind, ScopeOf(kind), 2, TTL(kind))>>)
    IN  [i \in DOMAIN rows |->
           [rows[i] EXCEPT !.id = IF kind = "item" THEN rows[i].key ELSE i]]

SomeCounters ==
    [k \in Kinds \cup DataPulls |->
        IF k \in Kinds THEN [average_pull_time_in_seconds |-> Some(Rat(3, 2)),
                             total_pulls |-> Some(4)]
        ELSE None]

InitialAges1 == {None, Some(-1), Some(0), Some(1)}
InitialAges2 == {None, Some(0)}
InitialCounters == {<<>>, <<EmptyCounters>>, <<SomeCounters>>}

InitCommon ==
    /\ thread = [j \in JobIds |-> IdleThread]
    /\ item_jobs = {}
    /\ current_market_jobs = {}
    /\ historical_market_jobs = {}
    /\ clock = 0
    /\ response = NoResponse
    /\ consumed = {}
    /\ upstream_calls = [j \in CallerIds |-> <<>>]

InitTables(ages1, ages2) ==
    \E age1 \in ages1, age2 \in ages2 :
       /\ item_data = InitialTable("item", age1, age2)
       /\ item_market_data_current = InitialTable("current", age1, age2)
       /\ item_market_data_historical = InitialTable("historical", age1, age2)
       /\ World = {}
       /\ TaxRate = {}

\* No thread has been started yet.
Alone == \A i \in JobIds : thread[i].pc = "idle"

(***************************************************************************)
(* Spec: one job, of any kind and origin, with the status and result       *)
(* handlers polling while its thread runs.                                 *)
(***************************************************************************)
Init ==
    /\ InitCommon
    /\ InitTables(InitialAges1, InitialAges2)
    /\ overall_scraping_data \in InitialCounters

Next ==
    \/ \E j \in JobIds, kind \in PriceKinds, item_ids \in RequestLists :
         Alone /\ StartMarketJob(j, kind, Gaia, item_ids)
    \/ \E j \in JobIds, item_ids \in RequestLists : Alone /\ StartItemsJob(j, item_ids)
    \/ \E j \in JobIds, item_id \in Keys : Alone /\ StartScraperItem(j, item_id)
    \/ \E j \in JobIds : Classify(j)
    \/ \E j \in JobIds : Estimate(j)
    \/ \E j \in JobIds : Publish(j)
    \/ \E j \in JobIds : PullMarket(j)
    \/ \E j \in JobIds : MergeKey(j)
    \/ \E j \in JobIds : PullBasicItem(j)
    \/ \E j \in JobIds : Commit(j)
    \/ \E j \in JobIds : MarkComplete(j)
    \/ \E j \in JobIds : FinalYield(j)
    \/ \E j \in JobIds : GetStatus(j)
    \/ \E j \in JobIds : GetResult(j)
    \/ Tick

Spec == Init /\ [][Next]_vars

(***************************************************************************)
(* EngineSpec: one job of any kind and origin, its thread running with no  *)
(* status or result request made.                                          *)
(***************************************************************************)
NextEngine ==
    \/ \E j \in JobIds, kind \in PriceKinds, item_ids \in RequestLists :
         Alone /\ StartMarketJob(j, kind, Gaia, item_ids)
    \/ \E j \in JobIds, item_ids \in RequestLists : Alone /\ StartItemsJob(j, item_ids)
    \/ \E j \in JobIds, item_id \in Keys : Alone /\ StartScraperItem(j, item_id)
    \/ \E j \in JobIds : Classify(j)
    \/ \E j \in JobIds : Estimate(j)
    \/ \E j \in JobIds : Publish(j)
    \/ \E j \in JobIds : PullMarket(j)
    \/ \E j \in JobIds : MergeKey(j)
    \/ \E j \in JobIds : PullBasicItem(j)
    \/ \E j \in JobIds : Commit(j)
    \/ \E j \in JobIds : MarkComplete(j)
    \/ \E j \in JobIds : FinalYield(j)
    \/ Tick

EngineSpec == Init /\ [][NextEngine]_vars

(***************************************************************************)
(* BatchSpec: one price job over the ids 1 .. n, for pending sets of 0, 1, *)
(* 2, 101 and MaxBatchKeys ids.                                            *)
(***************************************************************************)
BatchSizes == {1, 2, SetOfAHundred + 1, MaxBatchKeys}
BatchRequest(n) == [i \in 1 .. n |-> i]

InitBatch ==
    /\ InitCommon
    /\ InitTables({None, Some(1)}, {None})
    /\ overall_scraping_data = <<>>

NextBatch ==
    \/ \E j \in JobIds, kind \in PriceKinds, n \in BatchSizes :
         Alone /\ StartMarketJob(j, kind, Gaia, BatchRequest(n))
    \/ \E j \in JobIds : Classify(j)
    \/ \E j \in JobIds : Estimate(j)
    \/ \E j \in JobIds : Publish(j)
    \/ \E j \in JobIds : PullMarket(j)
    \/ \E j \in JobIds : MergeKey(j)
    \/ \E j \in JobIds : Commit(j)
    \/ \E j \in JobIds : MarkComplete(j)
    \/ \E j \in JobIds : FinalYield(j)

BatchSpec == InitBatch /\ [][NextBatch]_vars

(***************************************************************************)
(* EmptySpec: an engine of any kind called with an empty list of ids.  The  *)
(* start handlers cannot pass one (int('') raises before the thread is     *)
(* started), a caller of the engine can.                                   *)
(***************************************************************************)
InitEmpty ==
    /\ InitCommon
    /\ InitTables(InitialAges1, InitialAges2)
    /\ overall_scraping_data \in InitialCounters

NextEmpty ==
    \/ \E j \in JobIds, kind \in Kinds : Alone /\ CallEngine(j, kind, <<>>)
    \/ \E j \in JobIds : Classify(j)
    \/ \E j \in JobIds : Estimate(j)
    \/ \E j \in JobIds : Publish(j)
    \/ \E j \in JobIds : PullMarket(j)
    \/ \E j \in JobIds : Commit(j)
    \/ \E j \in JobIds : MarkComplete(j)
    \/ \E j \in JobIds : FinalYield(j)
    \/ Tick

EmptySpec == InitEmpty /\ [][NextEmpty]_vars

(***************************************************************************)
(* FailureSpec: one job, a price job started through its handler or the   *)
(* scraper's call of the item engine, with the statements of its session   *)
(* free to raise.                                                          *)
(***************************************************************************)
NextFailure ==
    \/ \E j \in JobIds, kind \in PriceKinds, item_ids \in RequestLists :
         Alone /\ StartMarketJob(j, kind, Gaia, item_ids)
    \/ \E j \in JobIds, item_id \in Keys : Alone /\ StartScraperItem(j, item_id)
    \/ \E j \in JobIds : Classify(j)
    \/ \E j \in JobIds : Estimate(j)
    \/ \E j \in JobIds : Publish(j)
    \/ \E j \in JobIds : PullMarket(j)
    \/ \E j \in JobIds : MergeKey(j)
    \/ \E j \in JobIds : PullBasicItem(j)
    \/ \E j \in JobIds : Commit(j)
    \/ \E j \in JobIds : MarkComplete(j)
    \/ \E j \in JobIds : FinalYield(j)
    \/ \E j \in JobIds : StoreFails(j)
    \/ \E j \in JobIds : GetStatus(j)
    \/ Tick

FailureSpec == Init /\ [][NextFailure]_vars

(***************************************************************************)
(* ConcurrentSpec: up to MaxJobs price jobs in the one world, for key 1   *)
(* or for keys 1 and 2, their threads interleaved.                         *)
(***************************************************************************)
ConcurrentRequests == {<<1>>, <<1, 2>>}

InitConcurrent ==
    /\ InitCommon
    /\ InitTables({None, Some(-1)}, {None})
    /\ overall_scraping_data \in {<<>>, <<SomeCounters>>}

NextConcurrent ==
    \/ \E j \in JobIds, kind \in PriceKinds, item_ids \in ConcurrentRequests :
         StartMarketJob(j, kind, Gaia, item_ids)
    \/ \E j \in JobIds : Classify(j)
    \/ \E j \in JobIds : Estimate(j)
    \/ \E j \in JobIds : Publish(j)
    \/ \E j \in JobIds : PullMarket(j)
    \/ \E j \in JobIds : MergeKey(j)
    \/ \E j \in JobIds : Commit(j)
    \/ \E j \in JobIds : MarkComplete(j)
    \/ \E j \in JobIds : FinalYield(j)
    \/ Tick

ConcurrentSpec == InitConcurrent /\ [][NextConcurrent]_vars

(***************************************************************************)
(* Properties.  The vocabulary they share.                                 *)
(***************************************************************************)
Requested(j) == SeqToSet(thread[j].item_ids)
Pending(j) == SeqToSet(thread[j].unhandled_ids)
Distinct(s) == Cardinality(SeqToSet(s)) = Len(s)
Ended(j) == thread[j].pc \in {"done", "crashed"}
Visible(j) == j \in Registry(JobKind(j))

\* The job's thread has partitioned its keys and has not raised.
Classified(j) == thread[j].pc \notin {"idle", "classify", "crashed"}
\* ... and has not committed yet: the tables are those it classified on.
BeforeCommit(j) == thread[j].pc \in {"estimate", "publish", "pull", "merge", "finalize"}
\* ... and has sent its last batch upstream.
PullsDone(j) ==
    thread[j].pc \in {"merge", "finalize", "complete", "final_yield", "done"}

\* The positions in a kind's table of the rows of a key in a world.
RowsOf(kind, world, key) ==
    {i \in DOMAIN Table(kind) :
        /\ Table(kind)[i].key = key
        /\ (kind = "item" \/ Table(kind)[i].world = world)}

\* The requested keys that had a row that was not stale when the job
\* classified them, and the requested keys that had none.
FreshKeys(j) ==
    LET t == thread[j]
    IN  {k \in Requested(j) :
           \E i \in RowsOf(t.kind, t.world, k) :
              ~IsStale(Table(t.kind)[i].last_data_pull, t.classified_at, t.kind)}

MissingOrStale(j) == Requested(j) \ FreshKeys(j)

\* The keys the job has sent upstream, and those upstream returned a value for.
CallKeys(j) ==
    UNION {SeqToSet(upstream_calls[j][i].item_ids) : i \in DOMAIN upstream_calls[j]}
ResolvedKeys(j) ==
    UNION {upstream_calls[j][i].resolved : i \in DOMAIN upstream_calls[j]}

AllCallsFailed(j) ==
    /\ upstream_calls[j] # <<>>
    /\ \A i \in DOMAIN upstream_calls[j] : upstream_calls[j][i].failed

\* Job j's engine thread can take the step it is at.
CanStep(j) ==
    CASE thread[j].pc = "classify" -> ENABLED Classify(j)
      [] thread[j].pc = "estimate" -> ENABLED Estimate(j)
      [] thread[j].pc = "publish" -> ENABLED Publish(j)
      [] thread[j].pc = "pull" -> ENABLED (PullMarket(j) \/ PullBasicItem(j))
      [] thread[j].pc = "merge" -> ENABLED MergeKey(j)
      [] thread[j].pc = "finalize" -> ENABLED Commit(j)
      [] thread[j].pc = "complete" -> ENABLED MarkComplete(j)
      [] thread[j].pc = "final_yield" -> ENABLED FinalYield(j)
      [] OTHER -> FALSE

(***************************************************************************)
(* C1.  Every job started through a start handler, of any of the three     *)
(* kinds and for every size of its pending set, becomes visible to the     *)
(* status handler with complete set.  As a property of finite runs: the    *)
(* thread of a job started by a handler never ends without its output      *)
(* being complete and stored in the registry (or already consumed).        *)
(***************************************************************************)
C1_StartedJobBecomesComplete ==
    \A j \in JobIds :
        (thread[j].origin = "handler" /\ Ended(j)) =>
            /\ thread[j].output.complete
            /\ (Visible(j) \/ j \in consumed)

(***************************************************************************)
(* C2.  In every snapshot of a job, running or complete, and in every      *)
(* response built from one, the keys of items are among the job's          *)
(* requested keys.                                                         *)
(***************************************************************************)
C2_ItemsWithinRequestedKeys ==
    /\ \A j \in JobIds : DOMAIN thread[j].output.items \subseteq Requested(j)
    /\ response.op \in {"status", "result"} =>
          DOMAIN response.status.items \subseteq Requested(response.job_id)

\* A registered job whose items hold a key served from the table and a key
\* merged from upstream.
C2_Witness ==
    \E j \in JobIds :
        /\ Visible(j)
        /\ thread[j].item_ids = <<1, 2, 3>>
        /\ 3 \in ResolvedKeys(j)
        /\ 2 \notin Pending(j)
        /\ DOMAIN thread[j].output.items = {1, 2, 3}

(***************************************************************************)
(* C3.  Single consumption: once a result handler has returned a job's     *)
(* items while it saw the job complete, and deleted the entry, the job id  *)
(* is never in the registry again, so that every later status or result    *)
(* request for it answers NotFound.                                        *)
(***************************************************************************)
C3_ConsumedJobStaysUnknown == \A j \in consumed : ~Visible(j)

(***************************************************************************)
(* C4.  Classification treats a row as stale exactly when                  *)
(* now - last_data_pull >= TTL(kind): a row pulled exactly TTL ago is      *)
(* stale, one pulled a second later is fresh, for all three kinds.         *)
(***************************************************************************)
C4_StaleExactlyFromTTL ==
    \A j \in JobIds :
        thread[j].pc = "estimate" =>
            LET t == thread[j]
                rows == QueryRows(t.kind, t.world, t.item_ids)
            IN  \A i \in DOMAIN rows :
                   (rows[i].key \in SeqToSet(t.stale_ids))
                       <=> (t.classified_at - rows[i].last_data_pull >= TTL(t.kind))

(***************************************************************************)
(* C5.  Every batch a price job sends upstream carries at most 100 keys,   *)
(* and a job with MaxBatchKeys = 250 pending keys sends exactly three      *)
(* batches, of 100, 100 and 50 keys in that order.                         *)
(***************************************************************************)
C5_BatchesOfAtMostAHundred ==
    \A j \in JobIds :
        LET calls == upstream_calls[j]
        IN  /\ \A i \in DOMAIN calls : Len(calls[i].item_ids) <= SetOfAHundred
            /\ (thread[j].pc = "done" /\ Len(thread[j].unhandled_ids) = MaxBatchKeys) =>
                  [i \in DOMAIN calls |-> Len(calls[i].item_ids)]
                      = <<SetOfAHundred, SetOfAHundred, MaxBatchKeys - 2 * SetOfAHundred>>

(***************************************************************************)
(* C6.  After two jobs of one kind have both fetched the same key in the   *)
(* same world, under any interleaving, both are complete and the table     *)
(* holds exactly one row for that key and world.                           *)
(***************************************************************************)
C6_OneEntryPerKeyAndScope ==
    \A j1, j2 \in JobIds :
        ( /\ j1 # j2
          /\ thread[j1].kind = thread[j2].kind
          /\ Ended(j1) /\ Ended(j2)
          /\ 1 \in ResolvedKeys(j1) /\ 1 \in ResolvedKeys(j2) ) =>
            /\ thread[j1].pc = "done" /\ thread[j2].pc = "done"
            /\ Cardinality(RowsOf(thread[j1].kind, Gaia, 1)) = 1

(***************************************************************************)
(* C7.  For a request of distinct keys: the pending keys of the job are    *)
(* the requested keys without a fresh row; every other requested key is in *)
(* the job's items from its first snapshot on and is never sent upstream;  *)
(* the keys sent upstream are exactly the pending keys; and a price job    *)
(* with 1 to 100 pending keys makes exactly one call, for those keys (keys *)
(* 1, 2, 3 with 1 and 2 fresh and 3 missing: one call, for key 3).         *)
(* Staleness is the staleness test of the classification loop.             *)
(***************************************************************************)
C7_OnlyPendingKeysGoUpstream ==
    \A j \in JobIds :
        (Distinct(thread[j].item_ids) /\ Classified(j)) =>
            /\ BeforeCommit(j) => Pending(j) = MissingOrStale(j)
            /\ (Requested(j) \ Pending(j)) \subseteq DOMAIN thread[j].output.items
            /\ CallKeys(j) \subseteq Pending(j)
            /\ PullsDone(j) => CallKeys(j) = Pending(j)
            /\ ( /\ PullsDone(j)
                 /\ thread[j].kind \in PriceKinds
                 /\ Len(thread[j].unhandled_ids) \in 1 .. SetOfAHundred ) =>
                    /\ Len(upstream_calls[j]) = 1
                    /\ upstream_calls[j][1].item_ids = thread[j].unhandled_ids

\* Keys 1, 2, 3 with 1 and 2 fresh and 3 missing: the job is done after one
\* call, for key 3.
C7_Witness ==
    \E j \in JobIds :
        /\ thread[j].pc = "done"
        /\ thread[j].kind \in PriceKinds
        /\ thread[j].item_ids = <<1, 2, 3>>
        /\ thread[j].unhandled_ids = <<3>>
        /\ thread[j].stale_ids = <<>>
        /\ Len(upstream_calls[j]) = 1
        /\ upstream_calls[j][1].item_ids = <<3>>

(***************************************************************************)
(* C8.  A job all of whose upstream calls failed outright does not raise   *)
(* and can always take its next step until it is done; done, its output is *)
(* complete (and stored, for a job started by a handler); its items hold   *)
(* exactly the requested keys with a fresh row and none of the others; it  *)
(* writes no row; and its calls are its batches in order, each sent once.  *)
(***************************************************************************)
C8_FailedBatchesStillComplete ==
    \A j \in JobIds :
        AllCallsFailed(j) =>
            LET t == thread[j]
                calls == upstream_calls[j]
            IN  /\ t.pc # "crashed"
                /\ t.pc # "done" => CanStep(j)
                /\ t.pc = "done" =>
                      /\ t.output.complete
                      /\ t.origin = "handler" => (Visible(j) \/ j \in consumed)
                /\ DOMAIN t.output.items = FreshKeys(j)
                /\ t.session = <<>>
                /\ IF t.kind = "item"
                   THEN /\ Len(calls) <= Len(t.unhandled_ids)
                        /\ \A i \in DOMAIN calls : calls[i].item_ids = <<t.unhandled_ids[i]>>
                   ELSE /\ Len(calls) <= Len(t.sets_of_a_hundred)
                        /\ \A i \in DOMAIN calls : calls[i].item_ids = t.sets_of_a_hundred[i]

\* A price job for keys 1, 2, 3 is done after its one call failed: of the
\* three keys only key 2, which was fresh, is in its items.
C8_Witness ==
    \E j \in JobIds :
        /\ AllCallsFailed(j)
        /\ thread[j].pc = "done"
        /\ thread[j].kind \in PriceKinds
        /\ thread[j].item_ids = <<1, 2, 3>>
        /\ thread[j].unhandled_ids = <<1, 3>>
        /\ DOMAIN thread[j].output.items = {2}
        /\ thread[j].output.complete

(***************************************************************************)
(* C9.  A pending key that upstream returned no value for, because its     *)
(* call failed or because the response left it out, has its rows left as   *)
(* they were by every step of the job, the commit included: no row is      *)
(* created for a missing key, a stale row keeps its payload and its        *)
(* last_data_pull; and the job's items never hold the key.  Only a commit  *)
(* changes a table.                                                        *)
(***************************************************************************)
C9_UnfetchedKeysLeaveStoreUnchanged ==
    [][ /\ tables' # tables => \E j \in JobIds : thread[j].pc = "finalize"
        /\ \A j \in JobIds :
             (thread[j].pc \in {"merge", "finalize"}) =>
                \A k \in MissingOrStale(j) \ ResolvedKeys(j) :
                   /\ SelectSeq(Table(thread[j].kind)',
                                LAMBDA r : r.key = k /\ (thread[j].kind = "item"
                                                         \/ r.world = thread[j].world))
                        = SelectSeq(Table(thread[j].kind),
                                LAMBDA r : r.key = k /\ (thread[j].kind = "item"
                                                         \/ r.world = thread[j].world))
                   /\ k \notin DOMAIN thread'[j].output.items ]_vars

\* A price job for keys 1 and 2 is done: key 2 was missing and has been
\* merged, key 1 was stale and upstream left it out; its row is the old one.
C9_Witness ==
    \E j \in JobIds :
        /\ thread[j].pc = "done"
        /\ thread[j].kind \in PriceKinds
        /\ thread[j].item_ids = <<1, 2>>
        /\ thread[j].stale_ids = <<1>>
        /\ ResolvedKeys(j) = {2}
        /\ DOMAIN thread[j].output.items = {2}
        /\ RowsOf(thread[j].kind, Gaia, 2) # {}
        /\ \A i \in RowsOf(thread[j].kind, Gaia, 1) :
              Table(thread[j].kind)[i].last_data_pull < 0

(***************************************************************************)
(* C10.  A status request for a job id in the registry answers with the    *)
(* complete flag, the estimate and the elapsed time of the job's latest    *)
(* snapshot and with empty items, and leaves the registry, the job's       *)
(* snapshot and the tables as they were, whether the job is running or     *)
(* complete; a result request that follows it returns the job's items in   *)
(* full.                                                                   *)
(***************************************************************************)
C10_StatusReadsWithoutChanging ==
    [][ /\ (response'.op = "status" /\ response' # response) =>
             LET j == response'.job_id
             IN  /\ UNCHANGED <<thread, registries, tables, consumed>>
                 /\ IF Visible(j)
                    THEN /\ response'.code = HttpOk
                         /\ response'.status.complete = thread[j].output.complete
                         /\ response'.status.estimated_operation_time
                               = thread[j].output.estimated_operation_time
                         /\ response'.status.operation_time_so_far
                               = thread[j].output.operation_time_so_far
                         /\ response'.status.items = EmptyDict
                    ELSE response'.code = HttpNotFound
        /\ ( /\ response.op = "status" /\ response.code = HttpOk
             /\ response'.op = "result" /\ response'.job_id = response.job_id ) =>
                /\ response'.code = HttpOk
                /\ response'.status.items = thread[response.job_id].output.items ]_vars

\* The status of a complete job with items has been returned, and the job
\* is still in the registry with its items.
C10_Witness ==
    /\ response.op = "status"
    /\ response.code = HttpOk
    /\ response.status.complete
    /\ response.status.items = EmptyDict
    /\ Visible(response.job_id)
    /\ DOMAIN thread[response.job_id].output.items = {1, 2}

(***************************************************************************)
(* C11.  From the moment the start handler has written a job id until the  *)
(* job's complete result is consumed, no status or result request for the  *)
(* id answers NotFound.  Stated for the jobs whose thread has not raised.  *)
(***************************************************************************)
C11_KnownFromStartToConsumption ==
    (response.op \in {"status", "result"} /\ response.code = HttpNotFound) =>
        \/ response.job_id \in consumed
        \/ thread[response.job_id].pc = "crashed"

(***************************************************************************)
(* C12.  A result request that finds the job running answers with the      *)
(* items the job has accumulated so far and leaves the registry entry, the *)
(* job's snapshot and the set of consumed jobs as they were.               *)
(***************************************************************************)
C12_RunningResultKeepsEntry ==
    [][ \A j \in JobIds :
          ( /\ response'.op = "result" /\ response'.job_id = j
            /\ response' # response
            /\ Visible(j) /\ ~thread[j].output.complete ) =>
              /\ response'.code = HttpOk
              /\ response'.status.items = thread[j].output.items
              /\ UNCHANGED <<thread, registries, tables, consumed>> ]_vars

\* The result of a running job has been returned with the items it had, and
\* the job is still in the registry.
C12_Witness ==
    /\ response.op = "result"
    /\ response.code = HttpOk
    /\ ~response.status.complete
    /\ DOMAIN response.status.items = {2}
    /\ Visible(response.job_id)
    /\ thread[response.job_id].pc = "pull"

(***************************************************************************)
(* C13.  The state a reader observes is running or complete, it is the     *)
(* complete flag of the job's snapshot, and the flag of a job never goes   *)
(* back from complete to running: once complete was observed, no later     *)
(* observation of the job shows running.                                   *)
(***************************************************************************)
C13_CompleteIsFinal ==
    [][ /\ \A j \in JobIds :
             /\ thread'[j].output.complete \in BOOLEAN
             /\ thread[j].output.complete => thread'[j].output.complete
        /\ ( /\ response'.op \in {"status", "result"}
             /\ response' # response
             /\ response'.code = HttpOk ) =>
               response'.status.complete = thread'[response'.job_id].output.complete ]_vars

\* A job consumed while its last yield was outstanding is in the registry
\* again, and a status request has observed it: complete.
C13_Witness ==
    /\ response.op = "status"
    /\ response.code = HttpOk
    /\ response.status.complete
    /\ response.job_id \in consumed
    /\ Visible(response.job_id)

(***************************************************************************)
(* C14.  Over the life of a job its elapsed time never decreases and the   *)
(* key set of its items never shrinks; every observation shows the elapsed *)
(* time (and, for a result request, the items) of the snapshot at that     *)
(* moment; and of two successive observations of a job the later shows no  *)
(* smaller elapsed time and, between two results, no fewer keys.           *)
(***************************************************************************)
C14_SnapshotsMonotonic ==
    [][ /\ \A j \in JobIds :
             thread[j].pc # "idle" =>
               /\ thread'[j].output.operation_time_so_far
                     >= thread[j].output.operation_time_so_far
               /\ DOMAIN thread[j].output.items \subseteq DOMAIN thread'[j].output.items
        /\ ( /\ response'.op \in {"status", "result"}
             /\ response' # response
             /\ response'.code = HttpOk ) =>
               /\ response'.status.operation_time_so_far
                     = thread'[response'.job_id].output.operation_time_so_far
               /\ response'.op = "result" =>
                     response'.status.items = thread'[response'.job_id].output.items
               /\ ( /\ response.op \in {"status", "result"}
                    /\ response.code = HttpOk
                    /\ response.job_id = response'.job_id ) =>
                      /\ response'.status.operation_time_so_far
                            >= response.status.operation_time_so_far
                      /\ (response.op = "result" /\ response'.op = "result") =>
                            DOMAIN response.status.items
                               \subseteq DOMAIN response'.status.items ]_vars

\* A result request has observed a complete job one second into its
\* operation, with the key it served from the table and the keys it merged.
C14_Witness ==
    /\ response.op = "result"
    /\ response.code = HttpOk
    /\ response.status.complete
    /\ response.status.operation_time_so_far = 1
    /\ DOMAIN response.status.items = {1, 2, 3}
    /\ 2 \notin Pending(response.job_id)

(***************************************************************************)
(* C15.  An engine called with an empty list of ids completes without      *)
(* raising and leaves the counter row as it was: its existence, its        *)
(* averages and its totals.                                                *)
(***************************************************************************)
C15_EmptyRequestLeavesCounters ==
    [][ \A j \in JobIds :
          (thread[j].pc # "idle" /\ thread[j].item_ids = <<>>) =>
             /\ overall_scraping_data' = overall_scraping_data
             /\ thread'[j].pc # "crashed"
             /\ thread'[j].output.items = EmptyDict ]_vars

(***************************************************************************)
(* C16.  When a job finalises with no other job in flight, the counters of *)
(* its kind follow the recurrence: the new total is the old total plus the *)
(* number of ids requested, and the new average is (old average * old      *)
(* total + duration) / new total, where the old total and average are 0    *)
(* when the row does not exist or its fields are unset.                    *)
(***************************************************************************)
C16_CountersFollowRecurrence ==
    [][ \A j \in JobIds :
          (thread[j].pc = "finalize" /\ thread'[j].pc = "complete") =>
             LET kind == thread[j].kind
                 old == IF FirstCounters = None THEN EmptyCounters[kind]
                        ELSE FirstCounters[1].row[kind]
                 old_total == IF TruthyInt(old.total_pulls) THEN old.total_pulls[1] ELSE 0
                 old_average == IF TruthyRat(old.average_pull_time_in_seconds)
                                THEN old.average_pull_time_in_seconds[1] ELSE RatInt(0)
                 duration == clock - thread[j].start_of_operation
                 new_total == old_total + Len(thread[j].item_ids)
                 new == overall_scraping_data'[1][kind]
             IN  /\ new.total_pulls = Some(new_total)
                 /\ new.average_pull_time_in_seconds =
                       Some(RatDiv(RatAdd(RatMul(old_average, old_total), duration),
                                   new_total)) ]_vars

\* The committed total of a kind, and the committed sum of the durations
\* (average * total), 0 where the row or the field is missing.
CommittedTotal(counters, kind) ==
    IF Len(counters) = 0 \/ ~TruthyInt(counters[1][kind].total_pulls) THEN 0
    ELSE counters[1][kind].total_pulls[1]

CommittedDurations(counters, kind) ==
    IF Len(counters) = 0 \/ ~TruthyRat(counters[1][kind].average_pull_time_in_seconds)
    THEN RatInt(0)
    ELSE RatMul(counters[1][kind].average_pull_time_in_seconds[1],
                CommittedTotal(counters, kind))

(***************************************************************************)
(* C17.  For every kind the committed total of completed fetches never     *)
(* decreases from one state of the store to the next, whatever jobs of the *)
(* kind run concurrently.                                                  *)
(***************************************************************************)
C17_TotalNeverDecreases ==
    [][ \A kind \in Kinds :
          CommittedTotal(overall_scraping_data', kind)
             >= CommittedTotal(overall_scraping_data, kind) ]_vars

(***************************************************************************)
(* C18.  The counter update is atomic per kind: every job that finalises   *)
(* on a counter row with values adds the number of ids it requested to the *)
(* committed total and its duration to the committed average * total, also *)
(* when other jobs of the kind finalise around it, so that no job's        *)
(* contribution is lost.                                                   *)
(***************************************************************************)
C18_NoLostCounterUpdate ==
    [][ \A j \in JobIds :
          ( /\ thread[j].pc = "finalize" /\ thread'[j].pc = "complete"
            /\ CommittedTotal(overall_scraping_data, thread[j].kind) > 0
            /\ CommittedDurations(overall_scraping_data, thread[j].kind) # RatInt(0) ) =>
              /\ CommittedTotal(overall_scraping_data', thread[j].kind)
                    = CommittedTotal(overall_scraping_data, thread[j].kind)
                         + Len(thread[j].item_ids)
              /\ CommittedDurations(overall_scraping_data', thread[j].kind)
                    = RatAdd(CommittedDurations(overall_scraping_data, thread[j].kind),
                             clock - thread[j].start_of_operation) ]_vars

(***************************************************************************)
(* C19.  The estimate a job publishes is the stored average times the      *)
(* number of its pending ids whenever the stored total of its kind is      *)
(* greater than 0, a stored average of 0 included, and infinite otherwise. *)
(***************************************************************************)
C19_EstimateFromCounters ==
    \A j \in JobIds :
       thread[j].pc \in {"publish", "pull", "merge", "finalize", "complete",
                         "final_yield", "done"} =>
          LET loaded == thread[j].overall_scraping_data
              row == IF loaded = None THEN EmptyCounters[thread[j].kind]
                     ELSE loaded[1].row[thread[j].kind]
              average == IF row.average_pull_time_in_seconds = None THEN RatInt(0)
                         ELSE row.average_pull_time_in_seconds[1]
          IN  thread[j].output.estimated_operation_time =
                 IF TruthyInt(row.total_pulls)
                 THEN RatMul(average, Len(thread[j].unhandled_ids))
                 ELSE Inf

(***************************************************************************)
(* C20.  A job started through a start handler one of whose session        *)
(* statements raised (the classification query, a merge, the counter query *)
(* or the final commit) still ends with its output complete and stored in  *)
(* the registry, so that a client that polls its status comes to see       *)
(* complete.                                                               *)
(***************************************************************************)
C20_StoreFailureStillCompletes ==
    \A j \in JobIds :
       ( /\ Ended(j)
         /\ thread[j].origin = "handler"
         /\ thread[j].raised = "OperationalError" ) =>
          /\ thread[j].output.complete
          /\ Visible(j) \/ j \in consumed

(***************************************************************************)
(* C21.  What a reader obtains is what the engine had at a publish step.   *)
(* For a job on distinct ids whose thread is between its first and its     *)
(* last yield, the values published are complete = False and the items of  *)
(* the classification (the merge comes after the last yield of the batch   *)
(* loop): a status or result request answers complete = False, and a       *)
(* result request shows no pending id among the items.                     *)
(***************************************************************************)
C21_ReadersSeePublishedSnapshots ==
    [][ \A j \in JobIds :
          ( /\ response' # response
            /\ response'.op \in {"status", "result"}
            /\ response'.job_id = j
            /\ response'.code = HttpOk
            /\ Distinct(thread[j].item_ids)
            /\ thread[j].pc \in {"publish", "pull", "merge", "finalize", "complete",
                                 "final_yield"} ) =>
              /\ ~response'.status.complete
              /\ response'.op = "result" =>
                    DOMAIN response'.status.items \cap Pending(j) = {} ]_vars

(***************************************************************************)
(* C22.  With an upstream of fixed latency per fetched key, the stored     *)
(* average is that latency, also when requested keys are served from the   *)
(* table: a job that finalises on a counter row whose average is the       *)
(* latency, and whose own duration is the latency times the number of keys *)
(* it had to fetch, leaves the average at the latency.                     *)
(***************************************************************************)
C22_AverageStaysAtLatency ==
    [][ \A j \in JobIds :
          LET kind == thread[j].kind
              duration == clock - thread[j].start_of_operation
              latency == overall_scraping_data[1][kind].average_pull_time_in_seconds[1]
          IN  ( /\ thread[j].pc = "finalize" /\ thread'[j].pc = "complete"
                /\ CommittedTotal(overall_scraping_data, kind) > 0
                /\ CommittedDurations(overall_scraping_data, kind) # RatInt(0)
                /\ RatMul(latency, Len(thread[j].unhandled_ids)) = RatInt(duration) ) =>
                  overall_scraping_data'[1][kind].average_pull_time_in_seconds
                     = Some(latency) ]_vars

\* The ids a job has sent upstream so far, call after call, in order.
RECURSIVE SentUpstream(_, _)
SentUpstream(calls, n) ==
    IF n = 0 THEN <<>> ELSE SentUpstream(calls, n - 1) \o calls[n].item_ids

(***************************************************************************)
(* C23.  The batches a price job sends upstream are consecutive slices of  *)
(* its pending list: at every moment the ids sent so far, in order, are a  *)
(* prefix of the pending list, and once the last batch is sent they are    *)
(* the pending list, each id sent once.                                    *)
(***************************************************************************)
C23_BatchesPartitionPending ==
    \A j \in JobIds :
       thread[j].kind \in PriceKinds =>
          LET sent == SentUpstream(upstream_calls[j], Len(upstream_calls[j]))
              pending == thread[j].unhandled_ids
          IN  /\ Len(sent) <= Len(pending)
              /\ SubSeq(pending, 1, Len(sent)) = sent
              /\ PullsDone(j) => sent = pending

(***************************************************************************)
(* C24.  Every batch is decoded by the shape upstream used for it: a price *)
(* job never raises while decoding a response, it runs to its end, and     *)
(* every key upstream resolved in any of its batches is among its items.   *)
(***************************************************************************)
C24_EveryBatchDecoded ==
    \A j \in JobIds :
       thread[j].kind \in PriceKinds =>
          /\ thread[j].raised # "KeyError"
          /\ Ended(j) =>
                /\ thread[j].pc = "done"
                /\ ResolvedKeys(j) \subseteq DOMAIN thread[j].output.items

(***************************************************************************)
(* C25.  Whenever the output of a job shows complete, which is when a      *)
(* reader can observe it, the job's writes are in the store: its session   *)
(* holds nothing uncommitted, every key of its items has a row in the      *)
(* table of its kind and world with the payload the items show, and the    *)
(* counter of its kind includes the ids it requested.                      *)
(***************************************************************************)
C25_CompleteOnlyAfterCommit ==
    \A j \in JobIds :
       thread[j].output.complete =>
          LET t == thread[j]
          IN  /\ t.session = <<>>
              /\ t.pc \in {"final_yield", "done"}
              /\ \A k \in DOMAIN t.output.items :
                    \E i \in RowsOf(t.kind, t.world, k) :
                       Table(t.kind)[i].payload = t.output.items[k]
              /\ CommittedTotal(overall_scraping_data, t.kind) >= Len(t.item_ids)

\* A reader has been shown complete, with an item the job fetched, while
\* the thread had not made its last yield yet.
C25_Witness ==
    /\ response.op = "result"
    /\ response.code = HttpOk
    /\ response.status.complete
    /\ thread[response.job_id].pc = "final_yield"
    /\ DOMAIN response.status.items \cap ResolvedKeys(response.job_id) # {}

\* The rows of a key in a world among the rows of a table of the kind.
RowsIn(table, kind, world, key) ==
    {table[i] : i \in {n \in DOMAIN table :
                         /\ table[n].key = key
                         /\ (kind = "item" \/ table[n].world = world)}}

(***************************************************************************)
(* C26.  When a job on distinct ids commits, every key upstream returned   *)
(* has exactly one row in the job's world afterwards, that row carries the *)
(* payload the job's items show for the key and a last_data_pull taken     *)
(* during the job, and where the key had a (stale) row before, it is that  *)
(* row, updated in place.                                                  *)
(***************************************************************************)
C26_MergeUpdatesOrInsertsOne ==
    [][ \A j \in JobIds :
          ( /\ thread[j].pc = "finalize" /\ thread'[j].pc = "complete"
            /\ Distinct(thread[j].item_ids) ) =>
              LET t == thread[j]
                  table_after == CASE t.kind = "item" -> item_data'
                                   [] t.kind = "current" -> item_market_data_current'
                                   [] OTHER -> item_market_data_historical'
              IN  \A key \in ResolvedKeys(j) :
                     LET before == RowsIn(Table(t.kind), t.kind, t.world, key)
                         after == RowsIn(table_after, t.kind, t.world, key)
                     IN  /\ Cardinality(after) = 1
                         /\ \A r \in after :
                               /\ r.payload = t.output.items[key]
                               /\ r.last_data_pull >= t.classified_at
                               /\ r.last_data_pull <= clock
                         /\ before # {} =>
                               {r.id : r \in after} = {r.id : r \in before} ]_vars

\* A job has committed the update of the stale row of key 1 and the insert
\* of a row for key 2, which had none.
C26_Witness ==
    \E j \in JobIds :
       /\ thread[j].pc = "done"
       /\ thread[j].item_ids = <<1, 2>>
       /\ ResolvedKeys(j) = {1, 2}
       /\ SeqToSet(thread[j].stale_ids) = {1}
       /\ Cardinality(RowsOf(thread[j].kind, thread[j].world, 1)) = 1
       /\ Cardinality(RowsOf(thread[j].kind, thread[j].world, 2)) = 1

(***************************************************************************)
(* C27.  The rows a price job merges from one upstream batch carry one     *)
(* last_data_pull: of a job on distinct ids whose pending ids fit one      *)
(* batch, all the rows written into the session have the same timestamp,   *)
(* also when the clock advances between the merges of two keys.            *)
(***************************************************************************)
C27_OneTimestampPerBatch ==
    \A j \in JobIds :
       ( /\ thread[j].kind \in PriceKinds
         /\ Distinct(thread[j].item_ids)
         /\ Len(thread[j].sets_of_a_hundred) = 1 ) =>
           \A a, b \in DOMAIN thread[j].session :
              thread[j].session[a].row.last_data_pull
                 = thread[j].session[b].row.last_data_pull

(***************************************************************************)
(* C28.  A job started through a start handler, of any kind, is in the     *)
(* registry (or consumed) by the time it makes its first upstream call and *)
(* when its thread has ended; and a job all of whose requested ids were    *)
(* fresh ends with its output complete and with exactly the requested ids  *)
(* as its items.                                                           *)
(***************************************************************************)
C28_InitialAndTerminalSnapshots ==
    \A j \in JobIds :
       (thread[j].pc # "idle" /\ thread[j].origin = "handler") =>
          /\ (upstream_calls[j] # <<>> \/ Ended(j)) => (Visible(j) \/ j \in consumed)
          /\ (Ended(j) /\ upstream_calls[j] = <<>>) =>
                /\ thread[j].output.complete
                /\ DOMAIN thread[j].output.items = Requested(j)

(***************************************************************************)
(* C29.  The thread started by the item start handler calls                *)
(* get_async_portion with the parsed list of ids as its one argument: the  *)
(* ids the engine of an item job works on are the list requested, of one   *)
(* id or of several, and the call itself does not raise.                   *)
(***************************************************************************)
C29_ItemThreadGetsTheList ==
    \A j \in JobIds :
       ( /\ thread[j].pc # "idle"
         /\ thread[j].kind = "item"
         /\ thread[j].origin = "handler" ) =>
           /\ thread[j].item_ids \in RequestLists
           /\ thread[j].raised # "TypeError"

(***************************************************************************)
(* C30.  The store changes only in the commit that ends a job's finalize   *)
(* step, and that step writes all the rows of the job's session and its    *)
(* counter update together; every other step, the step in which the        *)
(* engine aborts included, leaves the tables as they were, so that an      *)
(* aborted job leaves the store as it was before the job started.          *)
(***************************************************************************)
C30_WritesAllOrNothing ==
    [][ /\ (\A j \in JobIds : ~(thread[j].pc = "finalize" /\ thread'[j].pc = "complete"))
              => UNCHANGED tables
        /\ \A j \in JobIds :
              (thread[j].pc = "finalize" /\ thread'[j].pc = "complete") =>
                 LET t == thread[j]
                     table_after == CASE t.kind = "item" -> item_data'
                                      [] t.kind = "current" -> item_market_data_current'
                                      [] OTHER -> item_market_data_historical'
                 IN  /\ table_after = ApplySession(Table(t.kind), t.session)
                     /\ thread'[j].session = <<>>
                     /\ CommittedTotal(overall_scraping_data', t.kind)
                           = CommittedTotal(overall_scraping_data, t.kind) + Len(t.item_ids)
        /\ \A j \in JobIds : thread'[j].pc = "crashed" => UNCHANGED tables ]_vars

\* A job has aborted on a failure of the store after it had merged a row
\* into its session.
C30_Witness ==
    \E j \in JobIds :
       /\ thread[j].pc = "crashed"
       /\ thread[j].raised = "OperationalError"
       /\ thread[j].session # <<>>
       /\ ResolvedKeys(j) # {}

(***************************************************************************)
(* C31.  A price job whose request names a key more than once behaves as   *)
(* for the set of its keys: no key that was fresh when the job classified  *)
(* is sent upstream, and once the job has committed, every key upstream    *)
(* returned has exactly one row in the job's world.                        *)
(***************************************************************************)
C31_RepeatedKeysAsSet ==
    \A j \in JobIds :
       ( /\ thread[j].kind \in PriceKinds
         /\ ~Distinct(thread[j].item_ids) ) =>
           /\ (Classified(j) /\ BeforeCommit(j)) => CallKeys(j) \cap FreshKeys(j) = {}
           /\ thread[j].pc \in {"complete", "final_yield", "done"} =>
                 \A k \in ResolvedKeys(j) :
                    Cardinality(RowsOf(thread[j].kind, thread[j].world, k)) = 1

(***************************************************************************)
(* Worlds and tax rates.  WorldsHandler and TaxRatesHandler answer on the  *)
(* server's own thread, one request at a time, while the job threads run;  *)
(* a call is one step.  World holds rows [id, name], TaxRate rows          *)
(* [world, city, tax_rate]; the two timestamps are columns of the one      *)
(* OverallScrapingData row.                                                *)
(***************************************************************************)
Cities == {"Gridania", "Kugane"}
UpstreamWorlds == {[id |-> 1, name |-> Gaia], [id |-> 2, name |-> Ultros]}
UpstreamTaxRates(world) == [city \in Cities |-> IF world = Gaia THEN 3 ELSE 5]

\* pull_worlds: the decoded list, or [] when the request failed
pull_worlds == {{}, UpstreamWorlds}

\* pull_tax_rates: the decoded mapping, or {} when the request failed
pull_tax_rates(world) == {EmptyDict, UpstreamTaxRates(world)}

ReferenceCall(op, failed) == [op |-> op, failed |-> failed]

\* is_world_data_old and is_tax_rate_data_old: no row, no timestamp, or a
\* timestamp at least ttl seconds old
IsDataOld(column, ttl) ==
    \/ overall_scraping_data = <<>>
    \/ overall_scraping_data[1][column] = None
    \/ clock - overall_scraping_data[1][column][1] >= ttl

is_world_data_old == IsDataOld("last_world_data_pull", WORLD_DATA_SCHEDULE_IN_DAYS * SecondsPerDay)

is_tax_rate_data_old == IsDataOld("last_tax_data_pull", TAX_RATE_SCHEDULE_IN_HOURS * SecondsPerHour)

\* The table once is_world_data_old or is_tax_rate_data_old has run: when
\* its query found no row, it has added and committed OverallScrapingData().
AfterIsDataOld ==
    IF overall_scraping_data = <<>> THEN <<EmptyCounters>> ELSE overall_scraping_data

WorldNames(worlds) == {world.name : world \in worlds}

\* get_worlds
GetWorlds ==
    IF is_world_data_old
    THEN /\ Len(upstream_calls[IOLoop]) < MaxPulls
         /\ \E worlds \in pull_worlds :
              LET added == World \cup {world \in worlds :
                                          \A existing_world \in World :
                                             existing_world.name # world.name}
                  world_names == WorldNames(worlds)
              IN  /\ World' = {world \in added : world.name \in world_names}
                  /\ overall_scraping_data' =
                       IF worlds # {}
                       THEN [AfterIsDataOld EXCEPT ![1]["last_world_data_pull"] = Some(clock)]
                       ELSE AfterIsDataOld
                  /\ response' = [op |-> "worlds", code |-> HttpOk, body |-> world_names]
                  /\ upstream_calls' =
                       [upstream_calls EXCEPT
                          ![IOLoop] = Append(@, ReferenceCall("worlds", worlds = {}))]
         /\ UNCHANGED <<thread, registries, item_data, item_market_data_current,
                        item_market_data_historical, TaxRate, clock, consumed>>
    ELSE /\ response' = [op |-> "worlds", code |-> HttpOk, body |-> WorldNames(World)]
         /\ UNCHANGED <<thread, registries, tables, clock, consumed, upstream_calls>>

\* {tax_rate.city: tax_rate.tax_rate for tax_rate in tax_rates}
TaxRatesOf(world) ==
    LET rows == {tax_rate \in TaxRate : tax_rate.world = world}
    IN  [city \in {tax_rate.city : tax_rate \in rows} |->
            (CHOOSE tax_rate \in rows : tax_rate.city = city).tax_rate]

\* get_tax_rates
GetTaxRates(world) ==
    IF is_tax_rate_data_old
    THEN /\ Len(upstream_calls[IOLoop]) < MaxPulls
         /\ \E tax_rates \in pull_tax_rates(world) :
              /\ TaxRate' = TaxRate \cup
                   {[world |-> world, city |-> key, tax_rate |-> tax_rates[key]] :
                       key \in {city \in DOMAIN tax_rates :
                                   \A existing \in TaxRate :
                                      ~(existing.world = world /\ existing.city = city)}}
              /\ overall_scraping_data' =
                   IF DOMAIN tax_rates # {}
                   THEN [AfterIsDataOld EXCEPT ![1]["last_tax_data_pull"] = Some(clock)]
                   ELSE AfterIsDataOld
              /\ response' = [op |-> "tax_rates", code |-> HttpOk, world |-> world,
                              body |-> tax_rates]
              /\ upstream_calls' =
                   [upstream_calls EXCEPT
                      ![IOLoop] = Append(@, ReferenceCall("tax_rates", DOMAIN tax_rates = {}))]
         /\ UNCHANGED <<thread, registries, item_data, item_market_data_current,
                        item_market_data_historical, World, clock, consumed>>
    ELSE /\ response' = [op |-> "tax_rates", code |-> HttpOk, world |-> world,
                         body |-> TaxRatesOf(world)]
         /\ UNCHANGED <<thread, registries, tables, clock, consumed, upstream_calls>>

(***************************************************************************)
(* The end of a price job in two steps, as the code takes them: the query  *)
(* for the counter row (with the end of the operation read just before     *)
(* it), then the commit of what was built on the query's answer.           *)
(***************************************************************************)
\* end_of_operation = ...; session.query(OverallScrapingData).first()
QueryCounters(j) ==
    LET t == thread[j]
    IN  /\ t.pc = "finalize"
        /\ thread' = [thread EXCEPT
                        ![j].pc = "commit",
                        ![j].end_of_operation = clock,
                        ![j].overall_scraping_data =
                            IF t.overall_scraping_data # None THEN t.overall_scraping_data
                            ELSE FirstCounters]
        /\ UNCHANGED <<registries, tables, clock, response, consumed, upstream_calls>>

\* OverallScrapingData(...) for a query that found no row: a new row
InsertCounters(kind, duration, count) ==
    Append(overall_scraping_data,
           [EmptyCounters EXCEPT ![kind] = CreatedCounters(duration, count)])

\* the counters are computed on the queried row, or a row is created, and
\* session.add(overall_scraping_data); session.commit()
CommitQueried(j) ==
    LET t == thread[j]
        duration == t.end_of_operation - t.start_of_operation
        queried == t.overall_scraping_data
    IN  /\ t.pc = "commit"
        /\ IF queried # None /\ CountersDivideByZero(t.kind, queried, Len(t.item_ids))
           THEN /\ thread' = [thread EXCEPT ![j].pc = "crashed",
                                            ![j].raised = "ZeroDivisionError"]
                /\ UNCHANGED tables
           ELSE IF ViolatesPrimaryKey(t.kind, Table(t.kind), t.session)
           THEN /\ thread' = [thread EXCEPT ![j].pc = "crashed",
                                            ![j].raised = "IntegrityError"]
                /\ UNCHANGED tables
           ELSE /\ thread' = [thread EXCEPT ![j].pc = "complete", ![j].session = <<>>]
                /\ TablesCommit(t.kind, t.session,
                                IF queried = None
                                THEN InsertCounters(t.kind, duration, Len(t.item_ids))
                                ELSE CommitCounters(t.kind, queried, duration,
                                                    Len(t.item_ids)))
        /\ UNCHANGED <<registries, clock, response, consumed, upstream_calls>>

\* No job has run and no world or tax data was ever asked for: the store
\* has no OverallScrapingData row.
InitFirstRow ==
    /\ InitCommon
    /\ InitTables({None}, {None})
    /\ overall_scraping_data = <<>>

NextFirstRow ==
    \/ \E j \in JobIds, kind \in PriceKinds : StartMarketJob(j, kind, Gaia, <<1>>)
    \/ \E j \in JobIds : Classify(j)
    \/ \E j \in JobIds : Estimate(j)
    \/ \E j \in JobIds : Publish(j)
    \/ \E j \in JobIds : PullMarket(j)
    \/ \E j \in JobIds : MergeKey(j)
    \/ \E j \in JobIds : QueryCounters(j)
    \/ \E j \in JobIds : CommitQueried(j)
    \/ \E j \in JobIds : MarkComplete(j)
    \/ \E j \in JobIds : FinalYield(j)
    \/ GetWorlds
    \/ GetTaxRates(Gaia)

FirstRowSpec == InitFirstRow /\ [][NextFirstRow]_vars

(***************************************************************************)
(* C32.  The store never holds more than one OverallScrapingData row, also *)
(* when the first jobs and the first calls for worlds or tax rates run     *)
(* concurrently on a store that has no row yet.                            *)
(***************************************************************************)
C32_AtMostOneCounterRow == Len(overall_scraping_data) <= 1

(***************************************************************************)
(* Calls for worlds and tax rates on their own.  The store starts without  *)
(* a counter row, or with one whose world data, when pulled before, was    *)
(* pulled a day ago, and whose tax data, when pulled before, was pulled    *)
(* for Gaia one time to live ago.                                          *)
(***************************************************************************)
CachedTaxRates(world) ==
    {[world |-> world, city |-> city, tax_rate |-> UpstreamTaxRates(world)[city]] :
        city \in Cities}

InitReference ==
    /\ InitCommon
    /\ item_data = InitialTable("item", None, None)
    /\ item_market_data_current = InitialTable("current", None, None)
    /\ item_market_data_historical = InitialTable("historical", None, None)
    /\ \E row \in BOOLEAN,
          world_pull \in {None, Some(0 - WORLD_DATA_SCHEDULE_IN_DAYS * SecondsPerDay)},
          tax_pull \in {None, Some(0 - TAX_RATE_SCHEDULE_IN_HOURS * SecondsPerHour)} :
          /\ overall_scraping_data =
               IF row
               THEN <<[EmptyCounters EXCEPT !["last_world_data_pull"] = world_pull,
                                            !["last_tax_data_pull"] = tax_pull]>>
               ELSE <<>>
          /\ World = IF row /\ world_pull # None THEN UpstreamWorlds ELSE {}
          /\ TaxRate = IF row /\ tax_pull # None THEN CachedTaxRates(Gaia) ELSE {}

NextReference ==
    \/ GetWorlds
    \/ \E world \in {Gaia, Ultros} : GetTaxRates(world)
    \/ Tick

ReferenceSpec == InitReference /\ [][NextReference]_vars

(***************************************************************************)
(* C33.  A call for the worlds whose upstream pull failed leaves the World *)
(* rows as they were and answers with the names of the cached worlds.      *)
(***************************************************************************)
C33_FailedPullKeepsWorlds ==
    [][ ( /\ response'.op = "worlds"
          /\ Len(upstream_calls'[IOLoop]) > Len(upstream_calls[IOLoop])
          /\ upstream_calls'[IOLoop][Len(upstream_calls'[IOLoop])].failed )
        => /\ World' = World
           /\ response'.body = WorldNames(World) ]_vars

(***************************************************************************)
(* C34.  While upstream has answered every pull, the answer to a call for  *)
(* the tax rates of a world is the tax rates of that world, whatever was   *)
(* asked before.                                                           *)
(***************************************************************************)
C34_TaxRatesOfTheWorldAsked ==
    ( /\ \A i \in 1 .. Len(upstream_calls[IOLoop]) : ~upstream_calls[IOLoop][i].failed
      /\ response.op = "tax_rates" )
    => response.body = UpstreamTaxRates(response.world)

====
